---- MODULE Spec2Model ----
(***************************************************************************)
(* Model of maddpg/replay_buffer.py: the circular ReplayBuffer, its n-step *)
(* fetch, the PrioritizedReplayBuffer with its sum and min segment trees,  *)
(* and the MultiAgentReplayBuffer over a bounded deque.                    *)
(* Real numbers are kept exact: a discount is a pair                       *)
(* <<numerator, denominator>>, an n-step return is an integer numerator    *)
(* over denominator^(n-1), an importance weight is a pair <<num, den>>.    *)
(***************************************************************************)
EXTENDS Integers, Sequences, FiniteSets, TLC

(* ---------------------------- bounds ----------------------------------- *)
MaxCap == 3         \* capacities 1..MaxCap and max_size 0..MaxCap are constructed
MaxAdds == 4        \* add calls, or push calls, per run
MaxBatch == 2       \* batch_size of fetch and sample_multistep; sample of the
                    \* MultiAgentReplayBuffer is asked for 0..MaxBatch+1
Grid == 2           \* np.random.rand() is drawn from {0/Grid, .., (Grid-1)/Grid}

(* <<reward, done>> as given to ReplayBuffer.add and to                    *)
(* PrioritizedReplayBuffer.add                                             *)
Transitions == {<<5, FALSE>>, <<-1, FALSE>>, <<-1, TRUE>>, <<0, FALSE>>}
PrioritizedTransitions == {<<5, FALSE>>}
Discounts == {<<1, 2>>, <<1, 1>>}
Alphas == {0, 2}                 \* alpha of a PrioritizedReplayBuffer
Betas == {0, 2}                  \* beta given to sample_multistep
Priorities == {0, 1, 2}          \* priorities given to update_priorities
PairCounts == {0, 1, 2}          \* lengths of the arrays given to update_priorities
Kinds == {"uniform", "prioritized"}
Agents == {1, 2}                 \* num_agents of a MultiAgentReplayBuffer
(* <<reward, done>> as given to MultiAgentReplayBuffer.push *)
Pushed == {<<0, FALSE>>, <<1, TRUE>>}

(* value of a slot of np.empty(...) that no add has written yet *)
Uninit == -99
(* float('inf'), the neutral element of the min tree *)
Inf == 1000000

VARIABLES
    kind,           \* which class was constructed
    capacity,       \* self.capacity
    alpha,          \* self.alpha
    obses, next_obses, actions, rewards, not_dones,   \* the five columns
    idx,            \* self.idx, the write cursor
    full,           \* self.full
    sum_tree,       \* self.sum_tree: node array 1..2T-1, leaves at T..2T-1
    min_tree,       \* self.min_tree
    max_priority,   \* self.max_priority
    pc,             \* "idle": no call runs; "draw": inside the retry loop of
                    \* sample_idxs; "done": a call has returned or raised
    call,           \* the locals of the running prioritized sample_multistep
    ret,            \* the last finished call and what it returned or raised
    nadds,          \* number of add calls so far
    max_size,       \* MultiAgentReplayBuffer: self.max_size
    num_agents,     \* MultiAgentReplayBuffer: self.num_agents
    buffer,         \* MultiAgentReplayBuffer: self.buffer, oldest experience first
    npush,          \* number of push calls so far
    mret            \* what the last sample of the MultiAgentReplayBuffer gave

vars == <<kind, capacity, alpha, obses, next_obses, actions, rewards, not_dones,
          idx, full, sum_tree, min_tree, max_priority, pc, call, ret, nadds,
          max_size, num_agents, buffer, npush, mret>>

store == <<obses, next_obses, actions, rewards, not_dones, idx, full>>
trees == <<sum_tree, min_tree, max_priority>>
config == <<kind, capacity, alpha>>
multi == <<max_size, num_agents, buffer, npush, mret>>

(* ---------------------------- arithmetic ------------------------------- *)
Max(a, b) == IF a >= b THEN a ELSE b
Min(a, b) == IF a <= b THEN a ELSE b

RECURSIVE Pow(_, _)
Pow(b, e) == IF e = 0 THEN 1 ELSE b * Pow(b, e - 1)

Sign(x) == IF x > 0 THEN 1 ELSE IF x < 0 THEN -1 ELSE 0

(* ---------------------------- ReplayBuffer ----------------------------- *)
BufLenCursor == idx
BufLen == IF full THEN capacity ELSE idx

NextIdxSaturating(i, cap) == Min(i + 1, cap - 1)
NextIdx(i, cap) == (i + 1) % cap

NextFullForgets(f, i) == i = 0
NextFull(f, i) == f \/ i = 0

(* ---------------------------- segment trees ---------------------------- *)
RECURSIVE TreeCapFrom(_, _)
TreeCapFrom(t, cap) == IF t < cap THEN TreeCapFrom(2 * t, cap) ELSE t
TreeCap(cap) == TreeCapFrom(1, cap)

T == TreeCap(capacity)

NewTree(t, neutral) == [node \in 1..(2 * t - 1) |-> neutral]

Reduce(op, a, b) == IF op = "sum" THEN a + b ELSE Min(a, b)

RECURSIVE Propagate(_, _, _)
Propagate(tree, node, op) ==
    IF node < 1 THEN tree
    ELSE Propagate([tree EXCEPT ![node] = Reduce(op, tree[2 * node], tree[2 * node + 1])],
                   node \div 2, op)

SetItem(tree, t, i, v, op) ==
    Propagate([tree EXCEPT ![t + i] = v], (t + i) \div 2, op)

Leaf(tree, t, i) == tree[t + i]

RECURSIVE RangeSum(_, _, _, _)
RangeSum(tree, t, lo, hi) ==
    IF lo > hi THEN 0 ELSE Leaf(tree, t, lo) + RangeSum(tree, t, lo + 1, hi)

RangeOk(t, lo, hi) == 0 <= lo /\ lo < t /\ 0 <= hi /\ hi < t

TotalSum(tree) == tree[1]
TotalMin(tree) == tree[1]

(* find_prefixsum_idx for the mass num/den *)
RECURSIVE FindFrom(_, _, _, _, _)
FindFrom(tree, t, node, num, den) ==
    IF node >= t THEN node - t
    ELSE IF tree[2 * node] * den > num
         THEN FindFrom(tree, t, 2 * node, num, den)
         ELSE FindFrom(tree, t, 2 * node + 1, num - tree[2 * node] * den, den)

FindPrefixsumIdx(tree, t, num, den) == FindFrom(tree, t, 1, num, den)

(* ---------------------------- results ---------------------------------- *)
(* ret.status is "ok" or the exception raised; ret.where is the statement  *)
(* that raised it.  ret.rewards holds numerators over ret.den.             *)
NoRet == [op |-> "none", status |-> "none", where |-> "none", slot |-> -1,
          batch_size |-> 0, beta |-> 0, discount |-> <<1, 1>>, n |-> 0,
          idxs |-> <<>>, rewards |-> <<>>, den |-> 1, not_dones |-> <<>>,
          weights |-> <<>>, prios |-> <<>>]

Raised(op, status, where, bs, beta, discount, n, idxs) ==
    [NoRet EXCEPT !.op = op, !.status = status, !.where = where, !.batch_size = bs,
                  !.beta = beta, !.discount = discount, !.n = n, !.idxs = idxs]

NoCall == [batch_size |-> 0, beta |-> 0, discount |-> <<1, 1>>, n |-> 0,
           i |-> 0, idxs |-> <<>>, p_total |-> 0]

(* the eight lists MultiAgentReplayBuffer.sample returns *)
NoMultiRet == [op |-> "none", status |-> "none", batch_size |-> 0,
               obs_batch |-> <<>>, indiv_action_batch |-> <<>>,
               indiv_reward_batch |-> <<>>, next_obs_batch |-> <<>>,
               global_state_batch |-> <<>>, global_actions_batch |-> <<>>,
               global_next_state_batch |-> <<>>, done_batch |-> <<>>]

(* ---------------------------- construction ----------------------------- *)
Init ==
    /\ kind \in Kinds
    /\ capacity \in 1..MaxCap
    /\ alpha \in Alphas
    /\ (kind = "uniform" => alpha = 0)
    /\ obses = [s \in 0..(capacity - 1) |-> Uninit]
    /\ next_obses = [s \in 0..(capacity - 1) |-> Uninit]
    /\ actions = [s \in 0..(capacity - 1) |-> Uninit]
    /\ rewards = [s \in 0..(capacity - 1) |-> Uninit]
    /\ not_dones = [s \in 0..(capacity - 1) |-> Uninit]
    /\ idx = 0
    /\ full = FALSE
    /\ sum_tree = IF kind = "prioritized" THEN NewTree(TreeCap(capacity), 0) ELSE <<>>
    /\ min_tree = IF kind = "prioritized" THEN NewTree(TreeCap(capacity), Inf) ELSE <<>>
    /\ max_priority = IF kind = "prioritized" THEN 1 ELSE 0
    /\ pc = "idle"
    /\ call = NoCall
    /\ ret = NoRet
    /\ nadds = 0
    /\ max_size = 0
    /\ num_agents = 0
    /\ buffer = <<>>
    /\ npush = 0
    /\ mret = NoMultiRet

(* ---------------------------- add -------------------------------------- *)
(* ReplayBuffer.add: transition number nadds is (obs nadds, action nadds,  *)
(* next_obs nadds + 1) with a reward and a done flag chosen by the caller. *)
StoreAdd(reward, done) ==
    /\ obses' = [obses EXCEPT ![idx] = nadds]
    /\ actions' = [actions EXCEPT ![idx] = nadds]
    /\ rewards' = [rewards EXCEPT ![idx] = reward]
    /\ next_obses' = [next_obses EXCEPT ![idx] = nadds + 1]
    /\ not_dones' = [not_dones EXCEPT ![idx] = IF done THEN 0 ELSE 1]
    /\ idx' = NextIdx(idx, capacity)
    /\ full' = NextFull(full, idx')
    /\ nadds' = nadds + 1

Add ==
    /\ kind = "uniform"
    /\ pc = "idle"
    /\ nadds < MaxAdds
    /\ \E t \in Transitions : StoreAdd(t[1], t[2])
    /\ ret' = [NoRet EXCEPT !.op = "add", !.status = "ok", !.slot = idx]
    /\ pc' = "done"
    /\ UNCHANGED <<multi, config, trees, call>>

(* PrioritizedReplayBuffer.add: the trees are written at self.idx as       *)
(* super().add left it.                                                    *)
PrioritizedAdd ==
    /\ kind = "prioritized"
    /\ pc = "idle"
    /\ nadds < MaxAdds
    /\ \E t \in PrioritizedTransitions : StoreAdd(t[1], t[2])
    /\ sum_tree' = SetItem(sum_tree, T, idx', Pow(max_priority, alpha), "sum")
    /\ min_tree' = SetItem(min_tree, T, idx', Pow(max_priority, alpha), "min")
    /\ ret' = [NoRet EXCEPT !.op = "add", !.status = "ok", !.slot = idx]
    /\ pc' = "done"
    /\ UNCHANGED <<multi, config, max_priority, call>>

(* ---------------------------- fetch ------------------------------------ *)
(* one pass of the loop of fetch for one row: acc is the numerator of the  *)
(* return over dd^(n-1), nd the running not_dones                          *)
FetchStepFlagFirst(acc, nd, k, n, discount, reward, flag) ==
    <<acc + Pow(discount[1], k) * Pow(discount[2], n - 1 - k) * Min(nd, flag) * Sign(reward),
      Min(nd, flag)>>
FetchStep(acc, nd, k, n, discount, reward, flag) ==
    <<acc + Pow(discount[1], k) * Pow(discount[2], n - 1 - k) * nd * Sign(reward),
      Min(nd, flag)>>

RECURSIVE FetchLoop(_, _, _, _, _)
FetchLoop(i, k, n, discount, st) ==
    IF k >= n THEN st
    ELSE FetchLoop(i, k + 1, n, discount,
                   FetchStep(st[1], st[2], k, n, discount, rewards[i + k], not_dones[i + k]))

SeqMax(s) == CHOOSE m \in {s[j] : j \in 1..Len(s)} : \A j \in 1..Len(s) : s[j] <= m

FetchAssert(idxs, n) == SeqMax(idxs) + n <= BufLen

(* what fetch gives the caller op: the rows, or the AssertionError of line 41 *)
Fetch(op, bs, beta, discount, n, idxs) ==
    IF ~FetchAssert(idxs, n)
    THEN Raised(op, "AssertionError", "fetch", bs, beta, discount, n, idxs)
    ELSE [NoRet EXCEPT !.op = op, !.status = "ok", !.batch_size = bs, !.beta = beta,
                       !.discount = discount, !.n = n, !.idxs = idxs,
                       !.rewards = [j \in 1..Len(idxs) |->
                                       FetchLoop(idxs[j], 0, n, discount, <<0, 1>>)[1]],
                       !.den = Pow(discount[2], n - 1),
                       !.not_dones = [j \in 1..Len(idxs) |->
                                       FetchLoop(idxs[j], 0, n, discount, <<0, 1>>)[2]]]

Ns == 1..(capacity + 1)
Batches == 1..MaxBatch

FetchCall ==
    /\ pc = "idle"
    /\ \E b \in Batches, n \in Ns, discount \in Discounts :
         \E idxs \in [1..b -> 0..(capacity - 1)] :
            ret' = Fetch("fetch", b, 0, discount, n, idxs)
    /\ pc' = "done"
    /\ UNCHANGED <<multi, config, store, trees, call, nadds>>

(* ---------------------------- uniform sampling ------------------------- *)
LastIdxNoWindow(n) == BufLen
LastIdx(n) == BufLen - (n - 1)

SamplePre(n) == n <= idx \/ full

SampleMultistep ==
    /\ kind = "uniform"
    /\ pc = "idle"
    /\ \E b \in Batches, n \in Ns, discount \in Discounts :
         IF ~SamplePre(n)
         THEN ret' = Raised("sample_multistep", "AssertionError", "precondition",
                            b, 0, discount, n, <<>>)
         ELSE IF LastIdx(n) <= 0
         THEN ret' = Raised("sample_multistep", "ValueError", "randint",
                            b, 0, discount, n, <<>>)
         ELSE \E idxs \in [1..b -> 0..(LastIdx(n) - 1)] :
                 ret' = Fetch("sample_multistep", b, 0, discount, n, idxs)
    /\ pc' = "done"
    /\ UNCHANGED <<multi, config, store, trees, call, nadds>>

(* ---------------------------- prioritized sampling --------------------- *)
(* line 102: the draw is kept when its window lies inside the buffer *)
AcceptsStrict(i, n) == i + n < BufLen
Accepts(i, n) == i + n <= BufLen

(* sample_multistep up to the first draw of sample_idxs *)
PrioritizedSampleCall ==
    /\ kind = "prioritized"
    /\ pc = "idle"
    /\ \E b \in Batches, beta \in Betas, n \in Ns, discount \in Discounts :
         IF ~SamplePre(n) \/ ~(beta > 0)
         THEN /\ ret' = Raised("sample_multistep", "AssertionError", "precondition",
                               b, beta, discount, n, <<>>)
              /\ pc' = "done"
              /\ call' = call
         ELSE IF ~RangeOk(T, 0, BufLen - n - 1)
         THEN /\ ret' = Raised("sample_multistep", "IndexOutOfRange", "range_sum",
                               b, beta, discount, n, <<>>)
              /\ pc' = "done"
              /\ call' = call
         ELSE /\ call' = [batch_size |-> b, beta |-> beta, discount |-> discount, n |-> n,
                          i |-> 0, idxs |-> <<>>,
                          p_total |-> RangeSum(sum_tree, T, 0, BufLen - n - 1)]
              /\ pc' = "draw"
              /\ ret' = ret
    /\ UNCHANGED <<multi, config, store, trees, nadds>>

(* the index found for the draw r/Grid in band call.i: the mass is         *)
(* (r/Grid) * every_range_len + i * every_range_len                        *)
DrawnIdx(r) ==
    FindPrefixsumIdx(sum_tree, T, call.p_total * (r + call.i * Grid),
                     Grid * call.batch_size)

(* the loop with its local idx taken for the cursor self.idx *)
DrawIntoCursor ==
    /\ pc = "draw"
    /\ call.i < call.batch_size
    /\ \E r \in 0..(Grid - 1) :
         /\ call' = IF Accepts(DrawnIdx(r), call.n)
                    THEN [call EXCEPT !.i = call.i + 1,
                                      !.idxs = Append(call.idxs, DrawnIdx(r))]
                    ELSE call
         /\ idx' = DrawnIdx(r)
    /\ UNCHANGED <<multi, config, obses, next_obses, actions, rewards, not_dones, full,
                   trees, pc, ret, nadds>>

(* one pass of the while loop of sample_idxs: the draw is kept and the     *)
(* band is left, or it is thrown away and the band is drawn again          *)
Draw ==
    /\ pc = "draw"
    /\ call.i < call.batch_size
    /\ \E r \in 0..(Grid - 1) :
         call' = IF Accepts(DrawnIdx(r), call.n)
                 THEN [call EXCEPT !.i = call.i + 1,
                                   !.idxs = Append(call.idxs, DrawnIdx(r))]
                 ELSE call
    /\ UNCHANGED <<multi, config, store, trees, pc, ret, nadds>>

(* lines 114-120: weight / max_weight as <<numerator, denominator>> *)
WeightInverted(leaf, beta) ==
    <<Pow(leaf * BufLen * TotalSum(sum_tree), beta),
      Pow(TotalSum(sum_tree) * TotalMin(min_tree) * BufLen, beta)>>
Weight(leaf, beta) ==
    <<Pow(TotalSum(sum_tree) * TotalMin(min_tree) * BufLen, beta),
      Pow(leaf * BufLen * TotalSum(sum_tree), beta)>>

(* the float operations of lines 114-120 raise ZeroDivisionError on a zero *)
(* total, a zero leaf under a negative power, or a max_weight of 0.0       *)
WeightsDefined(idxs) ==
    /\ TotalSum(sum_tree) > 0
    /\ TotalMin(min_tree) < Inf
    /\ \A j \in 1..Len(idxs) : Leaf(sum_tree, T, idxs[j]) > 0

(* sample_multistep after sample_idxs has returned *)
PrioritizedSampleFinish ==
    /\ pc = "draw"
    /\ call.i = call.batch_size
    /\ ret' = IF ~WeightsDefined(call.idxs)
              THEN Raised("sample_multistep", "ZeroDivisionError", "weights",
                          call.batch_size, call.beta, call.discount, call.n, call.idxs)
              ELSE LET sample == Fetch("sample_multistep", call.batch_size, call.beta,
                                       call.discount, call.n, call.idxs)
                   IN IF sample.status # "ok" THEN sample
                      ELSE [sample EXCEPT !.weights =
                               [j \in 1..Len(call.idxs) |->
                                   Weight(Leaf(sum_tree, T, call.idxs[j]), call.beta)]]
    /\ pc' = "done"
    /\ call' = NoCall
    /\ UNCHANGED <<multi, config, store, trees, nadds>>

(* ---------------------------- update_priorities ------------------------ *)
PrioOkNonNegative(prio) == prio >= 0
PrioOk(prio) == prio > 0

IdxOkTree(i) == 0 <= i /\ i < T
IdxOk(i) == 0 <= i /\ i < BufLen

NewMaxPriorityLast(mp, prio) == prio
NewMaxPriority(mp, prio) == Max(mp, prio)

(* the for loop of update_priorities from pair j on; st is what the loop   *)
(* has made of the trees and max_priority so far                           *)
RECURSIVE UpdateLoop(_, _, _, _)
UpdateLoop(j, idxs, prios, st) ==
    IF j > Len(idxs) THEN st
    ELSE IF ~PrioOk(prios[j])
    THEN [st EXCEPT !.status = "AssertionError", !.where = "prio"]
    ELSE IF ~IdxOk(idxs[j])
    THEN [st EXCEPT !.status = "AssertionError", !.where = "idx"]
    ELSE UpdateLoop(j + 1, idxs, prios,
            [st EXCEPT !.sum = SetItem(st.sum, T, idxs[j], Pow(prios[j], alpha), "sum"),
                       !.min = SetItem(st.min, T, idxs[j], Pow(prios[j], alpha), "min"),
                       !.mp = NewMaxPriority(st.mp, prios[j])])

UpdateResult(idxs, prios) ==
    IF Len(idxs) # Len(prios)
    THEN [sum |-> sum_tree, min |-> min_tree, mp |-> max_priority,
          status |-> "AssertionError", where |-> "shape"]
    ELSE UpdateLoop(1, idxs, prios,
                    [sum |-> sum_tree, min |-> min_tree, mp |-> max_priority,
                     status |-> "ok", where |-> "none"])

UpdatePriorities ==
    /\ kind = "prioritized"
    /\ pc = "idle"
    /\ \E li \in PairCounts, lp \in PairCounts :
         \E idxs \in [1..li -> -1..capacity], prios \in [1..lp -> Priorities] :
            LET res == UpdateResult(idxs, prios) IN
            /\ sum_tree' = res.sum
            /\ min_tree' = res.min
            /\ max_priority' = res.mp
            /\ ret' = [NoRet EXCEPT !.op = "update_priorities", !.status = res.status,
                                    !.where = res.where, !.idxs = idxs, !.prios = prios]
    /\ pc' = "done"
    /\ UNCHANGED <<multi, config, store, call, nadds>>

(* the caller takes what the call returned or raised and goes on *)
Return ==
    /\ pc = "done"
    /\ pc' = "idle"
    /\ ret' = NoRet
    /\ UNCHANGED <<multi, config, store, trees, call, nadds>>

Next ==
    \/ Add
    \/ PrioritizedAdd
    \/ FetchCall
    \/ SampleMultistep
    \/ PrioritizedSampleCall
    \/ Draw
    \/ PrioritizedSampleFinish
    \/ UpdatePriorities
    \/ Return

Spec == Init /\ [][Next]_vars

(* ---------------------------- MultiAgentReplayBuffer ------------------- *)
(* push number k: agent i saw <<k, i>>, did <<k, i>> and then saw          *)
(* <<k + 1, i>>; every agent got the same reward                           *)
Experience(k, reward, done) ==
    [state |-> [i \in 1..num_agents |-> <<k, i>>],
     action |-> [i \in 1..num_agents |-> <<k, i>>],
     reward |-> [i \in 1..num_agents |-> reward],
     next_state |-> [i \in 1..num_agents |-> <<k + 1, i>>],
     done |-> done]

(* deque(maxlen=maxlen).append(x): a full deque drops its oldest entry *)
DequeAppendUnbounded(q, x, maxlen) == Append(q, x)
DequeAppend(q, x, maxlen) ==
    IF maxlen = 0 THEN q
    ELSE IF Len(q) = maxlen THEN Append(Tail(q), x)
    ELSE Append(q, x)

InitMulti ==
    /\ kind = "multi_agent"
    /\ capacity = 0
    /\ alpha = 0
    /\ obses = <<>>
    /\ next_obses = <<>>
    /\ actions = <<>>
    /\ rewards = <<>>
    /\ not_dones = <<>>
    /\ idx = 0
    /\ full = FALSE
    /\ sum_tree = <<>>
    /\ min_tree = <<>>
    /\ max_priority = 0
    /\ pc = "idle"
    /\ call = NoCall
    /\ ret = NoRet
    /\ nadds = 0
    /\ max_size \in 0..MaxCap
    /\ num_agents \in Agents
    /\ buffer = <<>>
    /\ npush = 0
    /\ mret = NoMultiRet

Push ==
    /\ kind = "multi_agent"
    /\ pc = "idle"
    /\ npush < MaxAdds
    /\ \E t \in Pushed :
         buffer' = DequeAppend(buffer, Experience(npush, t[1], t[2]), max_size)
    /\ npush' = npush + 1
    /\ mret' = [NoMultiRet EXCEPT !.op = "push", !.status = "ok"]
    /\ pc' = "done"
    /\ UNCHANGED <<config, store, trees, call, ret, nadds, max_size, num_agents>>

(* random.sample(population, k): k entries at pairwise different positions *)
SamplePositions(k, len) ==
    {pos \in [1..k -> 1..len] : \A a, b \in 1..k : a # b => pos[a] # pos[b]}

(* the lists sample builds from the batch random.sample has drawn *)
SampleResult(bs, pos) ==
    LET batch == [j \in 1..bs |-> buffer[pos[j]]] IN
    [NoMultiRet EXCEPT
        !.op = "sample", !.status = "ok", !.batch_size = bs,
        !.obs_batch = [i \in 1..num_agents |-> [j \in 1..bs |-> batch[j].state[i]]],
        !.indiv_action_batch =
            [i \in 1..num_agents |-> [j \in 1..bs |-> batch[j].action[i]]],
        !.indiv_reward_batch =
            [i \in 1..num_agents |-> [j \in 1..bs |-> batch[j].reward[i]]],
        !.next_obs_batch =
            [i \in 1..num_agents |-> [j \in 1..bs |-> batch[j].next_state[i]]],
        !.global_state_batch = [j \in 1..bs |-> batch[j].state],
        !.global_actions_batch = [j \in 1..bs |-> batch[j].action],
        !.global_next_state_batch = [j \in 1..bs |-> batch[j].next_state],
        !.done_batch = [j \in 1..bs |-> batch[j].done]]

Sample ==
    /\ kind = "multi_agent"
    /\ pc = "idle"
    /\ \E bs \in 0..(MaxBatch + 1) :
         IF bs > Len(buffer)
         THEN mret' = [NoMultiRet EXCEPT !.op = "sample", !.status = "ValueError",
                                         !.batch_size = bs]
         ELSE \E pos \in SamplePositions(bs, Len(buffer)) :
                 mret' = SampleResult(bs, pos)
    /\ pc' = "done"
    /\ UNCHANGED <<config, store, trees, call, ret, nadds,
                   max_size, num_agents, buffer, npush>>

(* the caller takes what push or sample gave and goes on *)
MultiAgentReturn ==
    /\ kind = "multi_agent"
    /\ pc = "done"
    /\ pc' = "idle"
    /\ mret' = NoMultiRet
    /\ UNCHANGED <<config, store, trees, call, ret, nadds,
                   max_size, num_agents, buffer, npush>>

NextMulti ==
    \/ Push
    \/ Sample
    \/ MultiAgentReturn

SpecMulti == InitMulti /\ [][NextMulti]_vars

(* ======================================================================= *)
(* Properties                                                              *)
(* ======================================================================= *)

(* C1: once more than capacity transitions have been added, the buffer     *)
(* holds capacity transitions, transition j of the last capacity adds is   *)
(* at slot j mod capacity, and no older transition is at any slot.         *)
C1_MostRecentKept ==
    nadds > capacity =>
        /\ BufLen = capacity
        /\ \A j \in 0..(nadds - 1) :
              IF j >= nadds - capacity
              THEN /\ obses[j % capacity] = j
                   /\ actions[j % capacity] = j
                   /\ next_obses[j % capacity] = j + 1
              ELSE \A s \in 0..(capacity - 1) : obses[s] # j

(* capacity 3, four adds: the first transition is gone *)
C1_Witness ==
    /\ kind = "uniform"
    /\ capacity = 3
    /\ nadds = 4
    /\ obses = [s \in 0..2 |-> IF s = 0 THEN 3 ELSE s]

(* C2: the cursor stays in 0..capacity-1 and is the number of adds modulo  *)
(* capacity, full holds exactly when at least capacity adds were made, and *)
(* the length is capacity when full and the cursor otherwise.              *)
C2_CursorAndSize ==
    /\ 0 <= idx /\ idx < capacity
    /\ idx = nadds % capacity
    /\ full <=> nadds >= capacity
    /\ BufLen = Min(nadds, capacity)

C2_Witness ==
    /\ kind = "prioritized"
    /\ capacity = 3
    /\ full
    /\ idx = 1

(* C3: after PrioritizedReplayBuffer.add the leaf of the slot the          *)
(* transition was written into holds max_priority^alpha in both trees.     *)
C3_FreshAtMaxPriority ==
    (kind = "prioritized" /\ ret.op = "add") =>
        /\ Leaf(sum_tree, T, ret.slot) = Pow(max_priority, alpha)
        /\ Leaf(min_tree, T, ret.slot) = Pow(max_priority, alpha)

(* C4 as stated: max_priority never decreases, and after every            *)
(* update_priorities call it is at least every priority passed to that     *)
(* call; with the first half, at least every priority ever passed.         *)
C4_MaxAboveEverySupplied ==
    [][/\ max_priority' >= max_priority
       /\ (ret'.op = "update_priorities" =>
              \A j \in 1..Len(ret'.prios) : max_priority' >= ret'.prios[j])]_vars

(* C4 as amended: max_priority never decreases, and after every            *)
(* update_priorities call that did not raise it is at least every priority *)
(* passed to that call; with the first half, at least every priority ever  *)
(* passed to a call that did not raise.                                    *)
C4_MaxAboveSucceeded ==
    [][/\ max_priority' >= max_priority
       /\ (ret'.op = "update_priorities" /\ ret'.status = "ok" =>
              \A j \in 1..Len(ret'.prios) : max_priority' >= ret'.prios[j])]_vars

(* a successful update has raised max_priority above its initial 1.0, and  *)
(* a later one has passed a smaller priority                               *)
C4_Witness ==
    /\ ret.op = "update_priorities"
    /\ ret.status = "ok"
    /\ ret.prios = <<1>>
    /\ max_priority = 2

(* C5: every weight sample_multistep returns is > 0 and <= 1; the sum-tree *)
(* leaf of every sampled index is positive and at least the minimum the    *)
(* min tree holds.                                                         *)
C5_WeightsInUnitInterval ==
    (kind = "prioritized" /\ ret.op = "sample_multistep" /\ ret.status = "ok") =>
        /\ Len(ret.weights) = Len(ret.idxs)
        /\ \A j \in 1..Len(ret.idxs) :
              /\ ret.weights[j][2] > 0
              /\ ret.weights[j][1] > 0
              /\ ret.weights[j][1] <= ret.weights[j][2]
              /\ Leaf(sum_tree, T, ret.idxs[j]) > 0
              /\ Leaf(sum_tree, T, ret.idxs[j]) >= TotalMin(min_tree)

(* a sampled transition whose weight is strictly below 1 *)
C5_Witness ==
    /\ kind = "prioritized"
    /\ ret.op = "sample_multistep"
    /\ ret.status = "ok"
    /\ \E j \in 1..Len(ret.weights) : ret.weights[j][1] < ret.weights[j][2]

(* C6: every index sample_idxs hands to sample_multistep has its window    *)
(* idx..idx+n-1 inside the written part of the buffer, so the assertion of *)
(* fetch never fails inside sample_multistep.                              *)
WindowInside(i, n) ==
    /\ 0 <= i
    /\ i + n <= BufLen
    /\ \A k \in 0..(n - 1) : obses[i + k] # Uninit /\ rewards[i + k] # Uninit

C6_SampledWindowInside ==
    /\ ret.op = "sample_multistep" => ret.where # "fetch"
    /\ (ret.op = "sample_multistep" /\ ret.status = "ok") =>
          /\ Len(ret.idxs) = ret.batch_size
          /\ \A j \in 1..Len(ret.idxs) : WindowInside(ret.idxs[j], ret.n)
    /\ pc = "draw" => \A j \in 1..Len(call.idxs) : WindowInside(call.idxs[j], call.n)

(* a two-step window that ends at the last written slot of a buffer that   *)
(* is not full                                                             *)
C6_Witness ==
    /\ kind = "uniform"
    /\ ~full
    /\ ret.op = "sample_multistep"
    /\ ret.status = "ok"
    /\ ret.n = 2
    /\ \E j \in 1..Len(ret.idxs) : ret.idxs[j] + ret.n = BufLen

(* C7: sample_multistep is rejected by its precondition check whenever     *)
(* n > len(buffer), the prioritized one also whenever beta <= 0; a call    *)
(* with beta > 0 and 1 <= n <= len(buffer) completes without an error.     *)
C7_PreconditionRejects ==
    ret.op = "sample_multistep" =>
        /\ (ret.n > BufLen \/ (kind = "prioritized" /\ ret.beta <= 0)) =>
              (ret.status = "AssertionError" /\ ret.where = "precondition")
        /\ (1 <= ret.n /\ ret.n <= BufLen /\ (kind = "prioritized" => ret.beta > 0)) =>
              ret.status = "ok"

(* C8: update_priorities raises whenever the arrays differ in length, a    *)
(* priority is <= 0 or an index is outside [0, len(buffer)); when it does  *)
(* not raise, the leaf of every supplied index holds, in both trees, the   *)
(* last priority supplied for it to the power alpha.                       *)
C8_UpdateChecksAndWrites ==
    ret.op = "update_priorities" =>
        /\ (\/ Len(ret.idxs) # Len(ret.prios)
            \/ \E j \in 1..Len(ret.prios) : ret.prios[j] <= 0
            \/ \E j \in 1..Len(ret.idxs) : ret.idxs[j] < 0 \/ ret.idxs[j] >= BufLen)
              => ret.status = "AssertionError"
        /\ ret.status = "ok" =>
              \A j \in 1..Len(ret.idxs) :
                 (\A k \in (j + 1)..Len(ret.idxs) : ret.idxs[k] # ret.idxs[j]) =>
                    /\ Leaf(sum_tree, T, ret.idxs[j]) = Pow(ret.prios[j], alpha)
                    /\ Leaf(min_tree, T, ret.idxs[j]) = Pow(ret.prios[j], alpha)

(* a successful update that names one index twice with two priorities *)
C8_Witness ==
    /\ ret.op = "update_priorities"
    /\ ret.status = "ok"
    /\ alpha > 0
    /\ Len(ret.idxs) = 2
    /\ ret.idxs[1] = ret.idxs[2]
    /\ ret.prios[1] > ret.prios[2]

(* The retry loop under the scheduling the interpreter gives it: a running *)
(* loop keeps drawing, and a call whose draws are done goes on to return.  *)
InitLive == Init /\ kind = "prioritized"

NextLive ==
    \/ PrioritizedAdd
    \/ FetchCall
    \/ PrioritizedSampleCall
    \/ Draw
    \/ PrioritizedSampleFinish
    \/ UpdatePriorities
    \/ Return

SpecLive ==
    /\ InitLive
    /\ [][NextLive]_vars
    /\ WF_vars(Draw)
    /\ WF_vars(PrioritizedSampleFinish)

(* C9: a prioritized sample_multistep that has entered the retry loop of   *)
(* sample_idxs leaves it and returns: every band reaches an accepted index.*)
C9_SampleReturns == (pc = "draw") ~> (pc = "done" /\ ret.op = "sample_multistep")

(* a call of batch size 2 has come through the loop and returned *)
C9_Witness ==
    /\ kind = "prioritized"
    /\ pc = "done"
    /\ ret.op = "sample_multistep"
    /\ ret.status = "ok"
    /\ ret.batch_size = 2
    /\ Len(ret.idxs) = 2
    /\ ret.n < BufLen

(* m_k: the minimum of the continuation flags of slots i..i+k-1, 1 for k=0 *)
FlagsMin(i, k) == IF \E m \in 0..(k - 1) : not_dones[i + m] = 0 THEN 0 ELSE 1

(* numerator over dd^(n-1) of sum_{k<upto} discount^k * m_k * sign(reward[i+k]) *)
RECURSIVE ReturnSum(_, _, _, _)
ReturnSum(i, upto, n, discount) ==
    IF upto = 0 THEN 0
    ELSE ReturnSum(i, upto - 1, n, discount)
         + Pow(discount[1], upto - 1) * Pow(discount[2], n - upto)
           * FlagsMin(i, upto - 1) * Sign(rewards[i + upto - 1])

(* C10: for every row, fetch returns sum_k discount^k * m_k * sign(reward) *)
(* and the minimum continuation flag of the window; rewards +5, -1 with    *)
(* both flags 1, discount 1/2, n = 2, index 0 give 1/2.                    *)
C10_NStepReturn ==
    (ret.op \in {"fetch", "sample_multistep"} /\ ret.status = "ok") =>
        /\ Len(ret.rewards) = Len(ret.idxs)
        /\ Len(ret.not_dones) = Len(ret.idxs)
        /\ ret.den = Pow(ret.discount[2], ret.n - 1)
        /\ \A j \in 1..Len(ret.idxs) :
              /\ ret.rewards[j] = ReturnSum(ret.idxs[j], ret.n, ret.n, ret.discount)
              /\ ret.not_dones[j] = FlagsMin(ret.idxs[j], ret.n)
              /\ (/\ ret.idxs[j] = 0 /\ ret.n = 2 /\ ret.discount = <<1, 2>>
                  /\ rewards[0] = 5 /\ rewards[1] = -1
                  /\ not_dones[0] = 1 /\ not_dones[1] = 1)
                    => (ret.rewards[j] = 1 /\ ret.den = 2)

(* the scenario of the n-step return: 1 - 1/2 = 1/2 *)
C10_Witness ==
    /\ ret.op = "fetch"
    /\ ret.status = "ok"
    /\ ret.idxs = <<0>>
    /\ ret.n = 2
    /\ ret.discount = <<1, 2>>
    /\ capacity = 3
    /\ rewards = [s \in 0..2 |-> IF s = 0 THEN 5 ELSE IF s = 1 THEN -1 ELSE 0]
    /\ not_dones = [s \in 0..2 |-> 1]
    /\ ret.rewards = <<1>>
    /\ ret.den = 2

(* C11: with a capacity that is not a power of two, the sentinel leaves    *)
(* capacity..T-1 hold 0 in the sum tree and +infinity in the min tree in   *)
(* every reachable state, and no index sample_idxs draws is >= capacity.   *)
C11_SentinelsNeutral ==
    kind = "prioritized" =>
        /\ \A i \in capacity..(T - 1) :
              /\ Leaf(sum_tree, T, i) = 0
              /\ Leaf(min_tree, T, i) = Inf
        /\ ret.op = "sample_multistep" =>
              \A j \in 1..Len(ret.idxs) : ret.idxs[j] < capacity
        /\ pc = "draw" =>
              \A j \in 1..Len(call.idxs) : call.idxs[j] < capacity

(* capacity 3 under a tree of 4 leaves: the buffer is full, an update has  *)
(* rewritten the leaf next to the sentinel, and a sample has come back     *)
C11_Witness ==
    /\ kind = "prioritized"
    /\ capacity = 3
    /\ T = 4
    /\ full
    /\ Leaf(sum_tree, T, 2) = 4
    /\ ret.op = "sample_multistep"
    /\ ret.status = "ok"
    /\ Len(ret.idxs) = 2

(* C12: across every step len(buffer) does not decrease, full does not go  *)
(* from true back to false, and a full buffer stays full with              *)
(* len(buffer) = capacity.                                                 *)
C12_ForwardOnly ==
    [][/\ BufLen' >= BufLen
       /\ (full => full')
       /\ (full => BufLen = capacity /\ BufLen' = capacity)]_vars

(* a buffer of capacity 2 that became full and was written twice more *)
C12_Witness ==
    /\ kind = "uniform"
    /\ capacity = 2
    /\ nadds = 4
    /\ full
    /\ idx = 0
    /\ BufLen = 2

(* C13: in every reachable state of a PrioritizedReplayBuffer the leaves   *)
(* that hold an assigned priority (sum leaf > 0, min leaf finite) are      *)
(* exactly the leaves of the live slots 0..len(buffer)-1.                  *)
C13_LeavesAreLiveSlots ==
    kind = "prioritized" =>
        \A i \in 0..(T - 1) :
            (Leaf(sum_tree, T, i) > 0 /\ Leaf(min_tree, T, i) < Inf) <=> i < BufLen

(* C14: PrioritizedReplayBuffer.add leaves the priority leaf of every live *)
(* slot other than the slot it writes as it was, in both trees.            *)
C14_AddKeepsOtherPriorities ==
    [][(kind = "prioritized" /\ ret'.op = "add") =>
          \A s \in 0..(BufLen - 1) :
              s # ret'.slot =>
                  /\ Leaf(sum_tree', T, s) = Leaf(sum_tree, T, s)
                  /\ Leaf(min_tree', T, s) = Leaf(min_tree, T, s)]_vars

(* C15: every window idx..idx+n-1 that sample_multistep aggregates holds n *)
(* transitions added one right after the other, in that order: the slot    *)
(* after each slot of the window was written by the very next add.  The    *)
(* observation column holds the number of the add that wrote the slot.     *)
C15_WindowsConsecutive ==
    (ret.op = "sample_multistep" /\ ret.status = "ok") =>
        \A j \in 1..Len(ret.idxs) :
            \A k \in 0..(ret.n - 2) :
                obses[ret.idxs[j] + k + 1] = obses[ret.idxs[j] + k] + 1

(* C16: an update_priorities call that raises leaves the sum tree, the min *)
(* tree and max_priority as they were before the call.                     *)
C16_FailedUpdateChangesNothing ==
    [][(ret'.op = "update_priorities" /\ ret'.status # "ok") =>
          /\ sum_tree' = sum_tree
          /\ min_tree' = min_tree
          /\ max_priority' = max_priority]_vars

(* C17: in every reachable state of a PrioritizedReplayBuffer the two      *)
(* trees agree leaf by leaf: either both leaves hold the same positive     *)
(* value, or the leaf holds 0 in the sum tree and +infinity in the min     *)
(* tree.                                                                   *)
C17_TreesAgree ==
    kind = "prioritized" =>
        \A i \in 0..(T - 1) :
            \/ /\ Leaf(sum_tree, T, i) > 0
               /\ Leaf(min_tree, T, i) = Leaf(sum_tree, T, i)
            \/ /\ Leaf(sum_tree, T, i) = 0
               /\ Leaf(min_tree, T, i) = Inf

(* one leaf rewritten by update_priorities, one as add left it, and one    *)
(* that was never assigned                                                 *)
C17_Witness ==
    /\ kind = "prioritized"
    /\ capacity = 3
    /\ ret.op = "update_priorities"
    /\ ret.status = "ok"
    /\ Leaf(sum_tree, T, 0) = 4
    /\ Leaf(min_tree, T, 1) = 1
    /\ Leaf(sum_tree, T, 3) = 0

(* C18: fetch, sample_idxs and sample_multistep, whether they return or    *)
(* raise, leave idx, full, the five columns, both trees and max_priority   *)
(* as they were; a step that changes any of them is an add or an           *)
(* update_priorities, and one that changes max_priority is an              *)
(* update_priorities.                                                      *)
C18_SamplingReadsOnly ==
    [][/\ (ret'.op \in {"fetch", "sample_multistep"} \/ pc = "draw" \/ pc' = "draw") =>
             (store' = store /\ trees' = trees)
       /\ (store' # store \/ trees' # trees) =>
             ret'.op \in {"add", "update_priorities"}
       /\ max_priority' # max_priority => ret'.op = "update_priorities"]_vars

(* a prioritized sample has returned from a buffer that holds two          *)
(* transitions and whose max_priority an update has raised                 *)
C18_Witness ==
    /\ kind = "prioritized"
    /\ capacity = 3
    /\ nadds = 2
    /\ idx = 2
    /\ ~full
    /\ max_priority = 2
    /\ ret.op = "sample_multistep"
    /\ ret.status = "ok"
    /\ Len(ret.weights) = 1

(* C19: after k push calls the MultiAgentReplayBuffer holds the last       *)
(* min(k, max_size) experiences, oldest first; sample(batch_size) raises   *)
(* when batch_size > len(buffer), otherwise returns batch_size experiences *)
(* taken from pairwise different positions of the buffer; and sample       *)
(* leaves the buffer as it was.                                            *)
C19_DequeAndSample ==
    [][/\ Len(buffer') = Min(npush', max_size)
       /\ \A j \in 1..Len(buffer') :
             buffer'[j].state[1][1] = npush' - Len(buffer') + j - 1
       /\ mret'.op = "sample" =>
             /\ buffer' = buffer
             /\ mret'.batch_size > Len(buffer) => mret'.status = "ValueError"
             /\ mret'.batch_size <= Len(buffer) => mret'.status = "ok"
             /\ mret'.status = "ok" =>
                   /\ Len(mret'.done_batch) = mret'.batch_size
                   /\ Len(mret'.global_state_batch) = mret'.batch_size
                   /\ \E pos \in [1..mret'.batch_size -> 1..Len(buffer)] :
                         /\ \A a, b \in 1..mret'.batch_size : a # b => pos[a] # pos[b]
                         /\ \A j \in 1..mret'.batch_size :
                               /\ mret'.global_state_batch[j] = buffer[pos[j]].state
                               /\ mret'.global_actions_batch[j] = buffer[pos[j]].action
                               /\ mret'.global_next_state_batch[j] = buffer[pos[j]].next_state
                               /\ mret'.done_batch[j] = buffer[pos[j]].done
                               /\ \A i \in 1..num_agents :
                                     mret'.obs_batch[i][j] = buffer[pos[j]].state[i]]_vars

(* max_size 2, three pushes: the first experience is gone, and a sample of *)
(* two has returned the two that are left, newest first                    *)
C19_Witness ==
    /\ kind = "multi_agent"
    /\ max_size = 2
    /\ npush = 3
    /\ Len(buffer) = 2
    /\ mret.op = "sample"
    /\ mret.status = "ok"
    /\ mret.batch_size = 2
    /\ mret.global_state_batch[1] = buffer[2].state
    /\ mret.global_state_batch[2] = buffer[1].state
====
